---------------------------- MODULE Spec2Model ----------------------------
(***************************************************************************)
(* A model of the FOUND integration runner (src/src/integration_runner.cpp)*)
(* run_pipeline, stage by stage, followed by write_result_json.            *)
(*                                                                         *)
(* A std::string is a sequence of one-character strings.  A double is a    *)
(* fraction n/d: d > 0 is a finite value in lowest terms, +-1/0 is an      *)
(* infinity and 0/0 is a NaN.  The inputs of the model are chosen so that  *)
(* every finite value the code computes is a dyadic rational a double      *)
(* holds exactly (square roots of perfect squares, quotients by powers of  *)
(* two), so the fraction arithmetic is the IEEE arithmetic on them.        *)
(***************************************************************************)
EXTENDS Integers, Sequences, FiniteSets

(***************************************************************************)
(* Text: the string literals of the source, character by character.        *)
(***************************************************************************)
MsgNotFound == <<"I","m","a","g","e"," ","f","i","l","e"," ","n","o","t"," ","f","o","u","n","d",":"," ">>
MsgCouldNotLoad == <<"C","o","u","l","d"," ","n","o","t"," ","l","o","a","d"," ","i","m","a","g","e",":"," ">>
MsgNoEdges == <<"N","o"," ","e","d","g","e","s"," ","d","e","t","e","c","t","e","d">>

TxtOpen == <<"{","\n">>
TxtSuccess == <<" "," ","\"","s","u","c","c","e","s","s","\"",":"," ">>
TxtTrue == <<"t","r","u","e">>
TxtFalse == <<"f","a","l","s","e">>
TxtSep == <<",","\n">>
TxtError == <<" "," ","\"","e","r","r","o","r","\"",":"," ","\"">>
TxtErrorEnd == <<"\"","\n","}","\n">>
TxtNumEdges == <<" "," ","\"","n","u","m","_","e","d","g","e","s","\"",":"," ">>
TxtDistance == <<" "," ","\"","d","i","s","t","a","n","c","e","_","m","\"",":"," ">>
TxtAltitude == <<" "," ","\"","a","l","t","i","t","u","d","e","_","m","\"",":"," ">>
TxtGroundTruth == <<" "," ","\"","g","r","o","u","n","d","_","t","r","u","t","h","_","m","\"",":"," ">>
TxtErrorM == <<" "," ","\"","e","r","r","o","r","_","m","\"",":"," ">>
TxtErrorPercent == <<" "," ","\"","e","r","r","o","r","_","p","e","r","c","e","n","t","\"",":"," ">>
TxtNl == <<"\n">>
TxtClose == <<"}","\n">>

Contains(s, sub) ==
    \E i \in 1..(Len(s) - Len(sub) + 1) : SubSeq(s, i, i + Len(sub) - 1) = sub

(***************************************************************************)
(* Doubles.                                                                *)
(***************************************************************************)
Abs(n) == IF n < 0 THEN -n ELSE n

Sign(n) == IF n < 0 THEN -1 ELSE IF n > 0 THEN 1 ELSE 0

RECURSIVE Gcd(_, _)
Gcd(a, b) == IF b = 0 THEN a ELSE Gcd(b, a % b)

NaN == [n |-> 0, d |-> 0]

Inf(s) == [n |-> s, d |-> 0]

\* The finite value n/d (d # 0) in lowest terms with a positive denominator.
Fin(n, d) ==
    LET g == Gcd(Abs(n), Abs(d))
    IN  [n |-> (Sign(d) * n) \div g, d |-> Abs(d) \div g]

Num(k) == [n |-> k, d |-> 1]

IsNaN(x) == x.d = 0 /\ x.n = 0

IsInf(x) == x.d = 0 /\ x.n # 0

IsFinite(x) == x.d > 0

FNeg(x) == [n |-> -x.n, d |-> x.d]

FAbs(x) == [n |-> Abs(x.n), d |-> x.d]

FAdd(a, b) ==
    IF IsNaN(a) \/ IsNaN(b) THEN NaN
    ELSE IF IsInf(a) THEN (IF IsInf(b) /\ b.n # a.n THEN NaN ELSE a)
    ELSE IF IsInf(b) THEN b
    ELSE Fin(a.n * b.d + b.n * a.d, a.d * b.d)

FSub(a, b) == FAdd(a, FNeg(b))

FMul(a, b) ==
    IF IsNaN(a) \/ IsNaN(b) THEN NaN
    ELSE IF IsInf(a) \/ IsInf(b)
         THEN (IF a.n = 0 \/ b.n = 0 THEN NaN ELSE Inf(Sign(a.n) * Sign(b.n)))
    ELSE Fin(a.n * b.n, a.d * b.d)

\* IEEE division: x/0 is an infinity of x's sign for x # 0, and 0/0 is a NaN
\* (the zero divisor is +0.0: the model holds no negative zero).
FDiv(a, b) ==
    IF IsNaN(a) \/ IsNaN(b) THEN NaN
    ELSE IF IsInf(a) THEN (IF IsInf(b) THEN NaN
                           ELSE Inf(Sign(a.n) * (IF b.n < 0 THEN -1 ELSE 1)))
    ELSE IF IsInf(b) THEN Num(0)
    ELSE IF b.n = 0 THEN (IF a.n = 0 THEN NaN ELSE Inf(Sign(a.n)))
    ELSE Fin(a.n * b.d, a.d * b.n)

ISqrt(k) == CHOOSE s \in 0..k : s * s = k

\* std::sqrt on the values the model feeds it: perfect squares (exact in IEEE
\* arithmetic, whose square root is correctly rounded), NaN for a negative one.
FSqrt(x) ==
    IF IsNaN(x) \/ x.n < 0 THEN NaN
    ELSE IF IsInf(x) THEN x
    ELSE Fin(ISqrt(x.n), ISqrt(x.d))

(***************************************************************************)
(* operator<< on an int and on a double.  An ofstream prints a double as   *)
(* printf's %g with precision 6: six significant digits, rounded to        *)
(* nearest (ties to even) from the exact value, trailing zeros removed,    *)
(* scientific notation when the decimal exponent is < -4 or >= 6.          *)
(***************************************************************************)
DigitChars == <<"0","1","2","3","4","5","6","7","8","9">>

RECURSIVE Pow10(_)
Pow10(k) == IF k = 0 THEN 1 ELSE 10 * Pow10(k - 1)

\* The decimal digits of a natural number, most significant first.
RECURSIVE NatText(_)
NatText(k) ==
    IF k < 10 THEN <<DigitChars[k + 1]>>
    ELSE NatText(k \div 10) \o <<DigitChars[(k % 10) + 1]>>

\* f << r.num_edges
IntText(k) == IF k < 0 THEN <<"-">> \o NatText(-k) ELSE NatText(k)

\* floor(log10(n/d)) for n, d > 0.
RECURSIVE Exp10(_, _)
Exp10(n, d) ==
    IF n >= 10 * d THEN Exp10(n, 10 * d) + 1
    ELSE IF n < d THEN Exp10(10 * n, d) - 1
    ELSE 0

RoundHalfEven(num, den) ==
    LET q == num \div den
        r == num % den
    IN  IF 2 * r > den \/ (2 * r = den /\ q % 2 = 1) THEN q + 1 ELSE q

RECURSIVE StripZeros(_)
StripZeros(s) ==
    IF Len(s) > 0 /\ s[Len(s)] = "0" THEN StripZeros(SubSeq(s, 1, Len(s) - 1)) ELSE s

Zeros(k) == [i \in 1..k |-> "0"]

\* The text of the positive finite value n/d.
GMagText(n, d) ==
    LET x0 == Exp10(n, d)
        m0 == IF x0 <= 5 THEN RoundHalfEven(n * Pow10(5 - x0), d)
                         ELSE RoundHalfEven(n, d * Pow10(x0 - 5))
        carry == m0 = Pow10(6)
        x == IF carry THEN x0 + 1 ELSE x0
        m == IF carry THEN Pow10(5) ELSE m0
        digits == NatText(m)
        frac(from) == LET f == StripZeros(SubSeq(digits, from, 6))
                      IN  IF f = <<>> THEN <<>> ELSE <<".">> \o f
        ex == Abs(x)
    IN  IF x < -4 \/ x >= 6
        THEN <<digits[1]>> \o frac(2) \o <<"e", IF x < 0 THEN "-" ELSE "+">>
             \o (IF ex < 10 THEN <<"0">> ELSE <<>>) \o NatText(ex)
        ELSE IF x >= 0
        THEN SubSeq(digits, 1, x + 1) \o frac(x + 2)
        ELSE <<"0", ".">> \o Zeros(-x - 1) \o StripZeros(digits)

\* f << a double.  nanText is the platform's text of the NaN that 0.0/0.0
\* yields ("nan" or "-nan", by the sign bit the hardware sets).
DoubleText(x, nanText) ==
    IF IsNaN(x) THEN nanText
    ELSE IF IsInf(x) THEN (IF x.n < 0 THEN <<"-">> ELSE <<>>) \o <<"i","n","f">>
    ELSE IF x.n = 0 THEN <<"0">>
    ELSE (IF x.n < 0 THEN <<"-">> ELSE <<>>) \o GMagText(Abs(x.n), x.d)

NanTexts == {<<"n","a","n">>, <<"-","n","a","n">>}

(***************************************************************************)
(* The inputs: the caller's arguments and what the file system, the        *)
(* decoder and the FOUND library answer.                                   *)
(***************************************************************************)
\* Most edge points SimpleEdgeDetectionAlgorithm::Run returns in the model.
MaxEdges == 2

\* image_path: a plain name, one with a double quote, one that closes the JSON
\* string and opens another member, one with a backslash.
Paths ==
    { <<"a",".","p","n","g">>,
      <<"a","\"","b">>,
      <<"\"",",","\"","e","r","r","o","r","_","m","\"",":","\"">>,
      <<"c","\\","d">> }

\* ground_truth_m: run_pipeline takes any double.
GroundTruths == {Num(-2), Num(0), Num(1), Num(4), Num(8)}

\* The position vectors algo.Run returns, each of an integral magnitude.
Positions ==
    { [x |-> Num(0), y |-> Num(0), z |-> Num(0)],
      [x |-> Num(3), y |-> Num(4), z |-> Num(0)],
      [x |-> Num(2), y |-> Num(-3), z |-> Num(6)],
      [x |-> Num(0), y |-> Num(0), z |-> Num(8)] }

\* e.what() of the exceptions derived from std::exception.
Whats == { <<>>, <<"b","a","d">>, <<"a","\n","b">> }

\* What an external call may throw: an object whose type derives from
\* std::exception (std TRUE), or one of any other type.
Exceptions ==
    {[std |-> TRUE, what |-> w] : w \in Whats} \cup {[std |-> FALSE, what |-> <<>>]}

RADIUS_OF_EARTH == 6378137

(***************************************************************************)
(* The state.                                                              *)
(***************************************************************************)
VARIABLES
    pc,              \* the statement run_pipeline (then its caller) is at
    image_path,      \* argument
    ground_truth_m,  \* argument
    r,               \* RunResult r
    probe,           \* FILE* probe: "unset", "null" or "closed" (opened and closed)
    data,            \* unsigned char* data: "unset", "null", "live" or "freed"
    frees,           \* calls of stbi_image_free(data)
    staleReads,      \* reads of *data made after it was freed
    edges,           \* edges.size(), -1 before edge detection returns
    pos,             \* found::PositionVector pos
    thrown,          \* the exception an external call threw: <<>> or <<e>>
    stages,          \* the stages started so far, in order
    out              \* the text write_result_json has written

vars == <<pc, image_path, ground_truth_m, r, probe, data, frees, staleReads,
          edges, pos, thrown, stages, out>>

\* RunResult r; r.ground_truth_m = ground_truth_m;
NewResult(gt) ==
    [ success        |-> FALSE,
      error_message  |-> <<>>,
      num_edges      |-> 0,
      distance_m     |-> Num(0),
      altitude_m     |-> Num(0),
      ground_truth_m |-> gt,
      error_m        |-> Num(0),
      error_percent  |-> Num(0) ]

Init ==
    /\ image_path \in Paths
    /\ ground_truth_m \in GroundTruths
    /\ r = NewResult(ground_truth_m)
    /\ pc = "probe"
    /\ probe = "unset"
    /\ data = "unset"
    /\ frees = 0
    /\ staleReads = 0
    /\ edges = -1
    /\ pos = [x |-> Num(0), y |-> Num(0), z |-> Num(0)]
    /\ thrown = <<>>
    /\ stages = <<>>
    /\ out = <<>>

(***************************************************************************)
(* run_pipeline.                                                           *)
(***************************************************************************)
\* ProbeMissing without its return: the message is set and control goes on.
ProbeMissing_FallsThrough ==
    /\ pc = "probe"
    /\ probe' = "null"
    /\ r' = [r EXCEPT !.error_message = MsgNotFound \o image_path]
    /\ pc' = "load"
    /\ UNCHANGED <<image_path, ground_truth_m, data, frees, staleReads, edges,
                   pos, thrown, stages, out>>

\* fopen fails: the message is set and run_pipeline returns.
ProbeMissing ==
    /\ pc = "probe"
    /\ probe' = "null"
    /\ r' = [r EXCEPT !.error_message = MsgNotFound \o image_path]
    /\ pc' = "returned"
    /\ UNCHANGED <<image_path, ground_truth_m, data, frees, staleReads, edges,
                   pos, thrown, stages, out>>

\* fopen succeeds: fclose(probe), and on into the try block.
ProbeOpens ==
    /\ pc = "probe"
    /\ probe' = "closed"
    /\ pc' = "load"
    /\ UNCHANGED <<image_path, ground_truth_m, r, data, frees, staleReads, edges,
                   pos, thrown, stages, out>>

\* LoadNull without its return.
LoadNull_FallsThrough ==
    /\ pc = "load"
    /\ stages' = Append(stages, "load")
    /\ data' = "null"
    /\ r' = [r EXCEPT !.error_message = MsgCouldNotLoad \o image_path]
    /\ pc' = "detect"
    /\ UNCHANGED <<image_path, ground_truth_m, probe, frees, staleReads, edges,
                   pos, thrown, out>>

\* LoadNull returning r without a message.
LoadNull_NoMessage ==
    /\ pc = "load"
    /\ stages' = Append(stages, "load")
    /\ data' = "null"
    /\ pc' = "returned"
    /\ UNCHANGED <<image_path, ground_truth_m, r, probe, frees, staleReads, edges,
                   pos, thrown, out>>

\* stbi_load returns no data.
LoadNull ==
    /\ pc = "load"
    /\ stages' = Append(stages, "load")
    /\ data' = "null"
    /\ r' = [r EXCEPT !.error_message = MsgCouldNotLoad \o image_path]
    /\ pc' = "returned"
    /\ UNCHANGED <<image_path, ground_truth_m, probe, frees, staleReads, edges,
                   pos, thrown, out>>

\* stbi_load returns a buffer.
LoadData ==
    /\ pc = "load"
    /\ stages' = Append(stages, "load")
    /\ data' = "live"
    /\ pc' = "detect"
    /\ UNCHANGED <<image_path, ground_truth_m, r, probe, frees, staleReads, edges,
                   pos, thrown, out>>

\* The catch clause, catch (const std::exception& e), for an exception thrown
\* inside the try block: one that derives from std::exception is caught, its
\* what() stored and r returned; any other leaves run_pipeline.
Throw(e) ==
    /\ thrown' = <<e>>
    /\ IF e.std
       THEN /\ r' = [r EXCEPT !.error_message = e.what]
            /\ pc' = "returned"
       ELSE /\ r' = r
            /\ pc' = "escaped"

\* DetectEdges without the edges.empty() check.
DetectEdges_NoEmptyCheck(n) ==
    /\ pc = "detect"
    /\ stages' = Append(stages, "detect")
    /\ staleReads' = IF data = "freed" THEN staleReads + 1 ELSE staleReads
    /\ data' = "freed"
    /\ frees' = frees + 1
    /\ edges' = n
    /\ r' = [r EXCEPT !.num_edges = n]
    /\ pc' = "camera"
    /\ UNCHANGED <<image_path, ground_truth_m, probe, pos, thrown, out>>

\* edge_detector.Run(image) returns n points; the buffer is freed; no points
\* is a failure.
DetectEdges(n) ==
    /\ pc = "detect"
    /\ stages' = Append(stages, "detect")
    /\ staleReads' = IF data = "freed" THEN staleReads + 1 ELSE staleReads
    /\ data' = "freed"
    /\ frees' = frees + 1
    /\ edges' = n
    /\ IF n = 0
       THEN /\ r' = [r EXCEPT !.num_edges = n, !.error_message = MsgNoEdges]
            /\ pc' = "returned"
       ELSE /\ r' = [r EXCEPT !.num_edges = n]
            /\ pc' = "camera"
    /\ UNCHANGED <<image_path, ground_truth_m, probe, pos, thrown, out>>

\* edge_detector.Run(image) throws: control leaves the try block before
\* stbi_image_free(data).
DetectThrows(e) ==
    /\ pc = "detect"
    /\ stages' = Append(stages, "detect")
    /\ staleReads' = IF data = "freed" THEN staleReads + 1 ELSE staleReads
    /\ Throw(e)
    /\ UNCHANGED <<image_path, ground_truth_m, probe, data, frees, edges, pos, out>>

\* found::Camera cam(...)
ConstructCamera ==
    /\ pc = "camera"
    /\ stages' = Append(stages, "camera")
    /\ pc' = "algo"
    /\ UNCHANGED <<image_path, ground_truth_m, r, probe, data, frees, staleReads,
                   edges, pos, thrown, out>>

CameraThrows(e) ==
    /\ pc = "camera"
    /\ stages' = Append(stages, "camera")
    /\ Throw(e)
    /\ UNCHANGED <<image_path, ground_truth_m, probe, data, frees, staleReads,
                   edges, pos, out>>

\* algo.Run(edges) returns p.
RunDistance(p) ==
    /\ pc = "algo"
    /\ stages' = Append(stages, "algo")
    /\ pos' = p
    /\ pc' = "magnitude"
    /\ UNCHANGED <<image_path, ground_truth_m, r, probe, data, frees, staleReads,
                   edges, thrown, out>>

DistanceThrows(e) ==
    /\ pc = "algo"
    /\ stages' = Append(stages, "algo")
    /\ Throw(e)
    /\ UNCHANGED <<image_path, ground_truth_m, probe, data, frees, staleReads,
                   edges, pos, out>>

\* ComputeMagnitude with r.success = true moved up before the error is computed.
ComputeMagnitude_SetsSuccess ==
    LET d == FSqrt(FAdd(FAdd(FMul(pos.x, pos.x), FMul(pos.y, pos.y)),
                        FMul(pos.z, pos.z)))
    IN  /\ pc = "magnitude"
        /\ stages' = Append(stages, "magnitude")
        /\ r' = [r EXCEPT !.distance_m = d,
                          !.altitude_m = FSub(d, Num(RADIUS_OF_EARTH)),
                          !.success = TRUE]
        /\ pc' = "error"
        /\ UNCHANGED <<image_path, ground_truth_m, probe, data, frees, staleReads,
                       edges, pos, thrown, out>>

\* r.distance_m = sqrt(x*x + y*y + z*z); r.altitude_m = r.distance_m - RADIUS_OF_EARTH;
ComputeMagnitude ==
    LET d == FSqrt(FAdd(FAdd(FMul(pos.x, pos.x), FMul(pos.y, pos.y)),
                        FMul(pos.z, pos.z)))
    IN  /\ pc = "magnitude"
        /\ stages' = Append(stages, "magnitude")
        /\ r' = [r EXCEPT !.distance_m = d,
                          !.altitude_m = FSub(d, Num(RADIUS_OF_EARTH))]
        /\ pc' = "error"
        /\ UNCHANGED <<image_path, ground_truth_m, probe, data, frees, staleReads,
                       edges, pos, thrown, out>>

\* r.error_m = abs(r.distance_m - ground_truth_m);
\* r.error_percent = (r.error_m / ground_truth_m) * 100.0; r.success = true;
ComputeError ==
    LET em == FAbs(FSub(r.distance_m, ground_truth_m))
    IN  /\ pc = "error"
        /\ stages' = Append(stages, "error")
        /\ r' = [r EXCEPT !.error_m = em,
                          !.error_percent = FMul(FDiv(em, ground_truth_m), Num(100)),
                          !.success = TRUE]
        /\ pc' = "returned"
        /\ UNCHANGED <<image_path, ground_truth_m, probe, data, frees, staleReads,
                       edges, pos, thrown, out>>

(***************************************************************************)
(* write_result_json.                                                      *)
(***************************************************************************)
JsonText(res, nanText) ==
    TxtOpen \o TxtSuccess \o (IF res.success THEN TxtTrue ELSE TxtFalse) \o TxtSep
    \o (IF ~res.success
        THEN TxtError \o res.error_message \o TxtErrorEnd
        ELSE TxtNumEdges \o IntText(res.num_edges) \o TxtSep
             \o TxtDistance \o DoubleText(res.distance_m, nanText) \o TxtSep
             \o TxtAltitude \o DoubleText(res.altitude_m, nanText) \o TxtSep
             \o TxtGroundTruth \o DoubleText(res.ground_truth_m, nanText) \o TxtSep
             \o TxtErrorM \o DoubleText(res.error_m, nanText) \o TxtSep
             \o TxtErrorPercent \o DoubleText(res.error_percent, nanText) \o TxtNl
             \o TxtClose)

\* The caller hands the returned r to write_result_json, whose file opens.
WriteResultJson(nanText) ==
    /\ pc = "returned"
    /\ out' = JsonText(r, nanText)
    /\ pc' = "written"
    /\ UNCHANGED <<image_path, ground_truth_m, r, probe, data, frees, staleReads,
                   edges, pos, thrown, stages>>

\* The output file does not open: write_result_json throws std::runtime_error.
WriteCannotOpen ==
    /\ pc = "returned"
    /\ pc' = "write_failed"
    /\ UNCHANGED <<image_path, ground_truth_m, r, probe, data, frees, staleReads,
                   edges, pos, thrown, stages, out>>

Next ==
    \/ ProbeMissing
    \/ ProbeOpens
    \/ LoadNull
    \/ LoadData
    \/ \E n \in 0..MaxEdges : DetectEdges(n)
    \/ \E e \in Exceptions : DetectThrows(e)
    \/ ConstructCamera
    \/ \E e \in Exceptions : CameraThrows(e)
    \/ \E p \in Positions : RunDistance(p)
    \/ \E e \in Exceptions : DistanceThrows(e)
    \/ ComputeMagnitude
    \/ ComputeError
    \/ \E t \in NanTexts : WriteResultJson(t)
    \/ WriteCannotOpen

Spec == Init /\ [][Next]_vars

(***************************************************************************)
(* What a JSON parser (RFC 8259) makes of a text: an object whose member   *)
(* values are strings, numbers, true, false or null.  The texts            *)
(* write_result_json writes here hold no array and no nested object.       *)
(***************************************************************************)
At(s, i) == IF i >= 1 /\ i <= Len(s) THEN s[i] ELSE ""

Digits == {"0","1","2","3","4","5","6","7","8","9"}

HexDigits == Digits \cup {"a","b","c","d","e","f","A","B","C","D","E","F"}

Whitespace == {" ", "\n", "\t", "\r"}

\* The characters below U+0020 a TLA+ string can hold: none may stand
\* unescaped in a JSON string.
ControlChars == {"\n", "\t", "\r", "\f"}

EscapeChars == {"\"", "\\", "/", "b", "f", "n", "r", "t"}

RECURSIVE SkipWs(_, _)
SkipWs(s, i) == IF At(s, i) \in Whitespace THEN SkipWs(s, i + 1) ELSE i

\* From position i inside a string: the position after its closing quote, 0
\* when the string is malformed or never closed.
RECURSIVE StringEnd(_, _)
StringEnd(s, i) ==
    LET c == At(s, i)
    IN  IF i > Len(s) THEN 0
        ELSE IF c = "\"" THEN i + 1
        ELSE IF c \in ControlChars THEN 0
        ELSE IF c = "\\"
             THEN IF At(s, i + 1) \in EscapeChars THEN StringEnd(s, i + 2)
                  ELSE IF /\ At(s, i + 1) = "u"
                          /\ \A k \in 2..5 : At(s, i + k) \in HexDigits
                       THEN StringEnd(s, i + 6)
                  ELSE 0
        ELSE StringEnd(s, i + 1)

RECURSIVE DigitsEnd(_, _)
DigitsEnd(s, i) == IF At(s, i) \in Digits THEN DigitsEnd(s, i + 1) ELSE i

\* From position i: the position after the number that starts there, 0 when
\* none does.
NumberEnd(s, i) ==
    LET a == IF At(s, i) = "-" THEN i + 1 ELSE i
        b == IF At(s, a) = "0" THEN a + 1
             ELSE IF At(s, a) \in Digits THEN DigitsEnd(s, a + 1)
             ELSE 0
        c == IF b = 0 THEN 0
             ELSE IF At(s, b) # "." THEN b
             ELSE IF At(s, b + 1) \in Digits THEN DigitsEnd(s, b + 1)
             ELSE 0
        e == IF At(s, c + 1) \in {"+", "-"} THEN c + 2 ELSE c + 1
    IN  IF c = 0 THEN 0
        ELSE IF At(s, c) \notin {"e", "E"} THEN c
        ELSE IF At(s, e) \in Digits THEN DigitsEnd(s, e)
        ELSE 0

WordEnd(s, i, w) ==
    IF i + Len(w) - 1 <= Len(s) /\ SubSeq(s, i, i + Len(w) - 1) = w
    THEN i + Len(w)
    ELSE 0

ValueEnd(s, i) ==
    LET c == At(s, i)
    IN  IF c = "\"" THEN StringEnd(s, i + 1)
        ELSE IF c = "-" \/ c \in Digits THEN NumberEnd(s, i)
        ELSE IF c = "t" THEN WordEnd(s, i, <<"t","r","u","e">>)
        ELSE IF c = "f" THEN WordEnd(s, i, <<"f","a","l","s","e">>)
        ELSE IF c = "n" THEN WordEnd(s, i, <<"n","u","l","l">>)
        ELSE 0

NoParse == [ok |-> FALSE, keys |-> {}, end |-> 0]

\* The members of an object from position i (a key is expected there), keys
\* being those of the members before.
RECURSIVE Members(_, _, _)
Members(s, i, keys) ==
    LET ke == IF At(s, i) = "\"" THEN StringEnd(s, i + 1) ELSE 0
        co == SkipWs(s, ke)
        ve == ValueEnd(s, SkipWs(s, co + 1))
        nx == SkipWs(s, ve)
        ks == keys \cup {SubSeq(s, i + 1, ke - 2)}
    IN  IF ke = 0 \/ At(s, co) # ":" \/ ve = 0 THEN NoParse
        ELSE IF At(s, nx) = "," THEN Members(s, SkipWs(s, nx + 1), ks)
        ELSE IF At(s, nx) = "}" THEN [ok |-> TRUE, keys |-> ks, end |-> nx + 1]
        ELSE NoParse

ParseObject(s) ==
    LET open == SkipWs(s, 1)
        first == SkipWs(s, open + 1)
        body == IF At(s, open) # "{" THEN NoParse
                ELSE IF At(s, first) = "}"
                     THEN [ok |-> TRUE, keys |-> {}, end |-> first + 1]
                ELSE Members(s, first, {})
    IN  IF body.ok /\ SkipWs(s, body.end) = Len(s) + 1 THEN body ELSE NoParse

IsJson(s) == ParseObject(s).ok

JsonKeys(s) == ParseObject(s).keys

SuccessKeys ==
    { <<"s","u","c","c","e","s","s">>,
      <<"n","u","m","_","e","d","g","e","s">>,
      <<"d","i","s","t","a","n","c","e","_","m">>,
      <<"a","l","t","i","t","u","d","e","_","m">>,
      <<"g","r","o","u","n","d","_","t","r","u","t","h","_","m">>,
      <<"e","r","r","o","r","_","m">>,
      <<"e","r","r","o","r","_","p","e","r","c","e","n","t">> }

FailureKeys == { <<"s","u","c","c","e","s","s">>, <<"e","r","r","o","r">> }

(***************************************************************************)
(* The claims.                                                             *)
(***************************************************************************)
\* run_pipeline has returned r to its caller.
Returned == pc \in {"returned", "written", "write_failed"}

\* run_pipeline has ended, by a return or by an exception that left it.
Ended == Returned \/ pc = "escaped"

StageOrder == <<"load", "detect", "camera", "algo", "magnitude", "error">>

IsPrefix(s, t) == Len(s) <= Len(t) /\ SubSeq(t, 1, Len(s)) = s

\* C1: when image_path cannot be opened, run_pipeline returns at once with
\* success = false and a message that holds "not found" and the path, and no
\* stage (decoder, edge detector, distance algorithm) has been started.
C1_MissingFile ==
    probe = "null" =>
        /\ Returned
        /\ ~r.success
        /\ Contains(r.error_message, <<"n","o","t"," ","f","o","u","n","d">>)
        /\ Contains(r.error_message, image_path)
        /\ stages = <<>>

C1_Witness == pc = "returned" /\ probe = "null"

\* C2: when the file opens and stbi_load returns no data, run_pipeline returns
\* with success = false and the message "Could not load image: <path>", and
\* only the load stage has been started.
C2_DecodeFailure ==
    data = "null" =>
        /\ Returned
        /\ ~r.success
        /\ r.error_message = MsgCouldNotLoad \o image_path
        /\ stages = <<"load">>

C2_Witness == pc = "returned" /\ data = "null" /\ probe = "closed"

\* C3: when edge detection returns no point, run_pipeline returns with
\* success = false, num_edges = 0 and the message "No edges detected", and the
\* distance algorithm has not been started.
C3_NoEdges ==
    edges = 0 =>
        /\ Returned
        /\ ~r.success
        /\ r.num_edges = 0
        /\ r.error_message = MsgNoEdges
        /\ stages = <<"load", "detect">>

C3_Witness == pc = "returned" /\ edges = 0 /\ data = "freed"

\* C4: no exception leaves run_pipeline: whatever an external call throws,
\* run_pipeline returns r with success = false and the exception's text as
\* error_message.
C4_NothingPropagates ==
    /\ pc # "escaped"
    /\ (thrown # <<>>) =>
           (Returned /\ ~r.success /\ r.error_message = thrown[1].what)

\* C5: in every successful result error_m is |distance_m - ground_truth_m| and
\* error_percent is the number (error_m / ground_truth_m) * 100, for every
\* ground_truth_m (zero and negative values too).
C5_ErrorPercent ==
    (Returned /\ r.success) =>
        LET g == r.ground_truth_m
            d == r.distance_m
            em == r.error_m
            ep == r.error_percent
        IN  /\ IsFinite(em)
            /\ em.n * d.d * g.d = Abs(d.n * g.d - g.n * d.d) * em.d
            /\ IsFinite(ep)
            /\ g.n # 0
            /\ ep.n * em.d * g.n = 100 * em.n * g.d * ep.d

\* C6: the object write_result_json writes holds exactly the seven keys of a
\* success when success = true, and exactly success and error when
\* success = false (stated of every output that is a JSON object at all).
C6_KeysBySuccess ==
    (pc = "written" /\ IsJson(out)) =>
        JsonKeys(out) = IF r.success THEN SuccessKeys ELSE FailureKeys

\* C7: the text write_result_json writes is parseable JSON, for every result
\* run_pipeline can return.
C7_OutputParses == pc = "written" => IsJson(out)

\* C8: the stages start at most once each and in the order load, detect,
\* camera, algo, magnitude, error; once run_pipeline has ended no stage starts;
\* and success is true only after the error stage, with every stage done.
C8_StageOrder ==
    /\ [](IsPrefix(stages, StageOrder))
    /\ [](r.success => (stages = StageOrder /\ Returned))
    /\ [][Ended => stages' = stages]_vars

C8_Witness == pc = "returned" /\ r.success /\ stages = StageOrder

\* C9: when run_pipeline has returned and stbi_load had returned a buffer, the
\* buffer has been freed exactly once, and no stage has read it after that.
C9_BufferFreedOnce ==
    (Returned /\ data \in {"live", "freed"}) =>
        (data = "freed" /\ frees = 1 /\ staleReads = 0)

\* C10 as stated: a returned r holds the ground truth passed in; success = true
\* comes with an empty message and num_edges >= 1; success = false comes with
\* a non-empty message and distance, altitude and both errors still 0.
C10_ResultConsistent ==
    Returned =>
        /\ r.ground_truth_m = ground_truth_m
        /\ r.success => (r.error_message = <<>> /\ r.num_edges >= 1)
        /\ ~r.success =>
               /\ r.error_message # <<>>
               /\ r.distance_m = Num(0)
               /\ r.altitude_m = Num(0)
               /\ r.error_m = Num(0)
               /\ r.error_percent = Num(0)

\* An exception deriving from std::exception was caught, and its what() is empty.
CaughtEmptyWhat == thrown # <<>> /\ thrown[1].std /\ thrown[1].what = <<>>

\* C10 as amended: the same, except that the message of a failure is empty
\* when (and only when) the failure is a caught exception whose what() is empty.
C10_ResultConsistentAmended ==
    Returned =>
        /\ r.ground_truth_m = ground_truth_m
        /\ r.success => (r.error_message = <<>> /\ r.num_edges >= 1)
        /\ ~r.success =>
               /\ (r.error_message = <<>>) <=> CaughtEmptyWhat
               /\ r.distance_m = Num(0)
               /\ r.altitude_m = Num(0)
               /\ r.error_m = Num(0)
               /\ r.error_percent = Num(0)

C10_Witness == pc = "returned" /\ ~r.success /\ CaughtEmptyWhat

(***************************************************************************)
(* Further properties of the model.                                        *)
(***************************************************************************)
TypeOK ==
    /\ pc \in {"probe", "load", "detect", "camera", "algo", "magnitude", "error",
               "returned", "escaped", "written", "write_failed"}
    /\ probe \in {"unset", "null", "closed"}
    /\ data \in {"unset", "null", "live", "freed"}
    /\ edges \in -1..MaxEdges
    /\ Len(thrown) <= 1

WellBehavedOutput ==
    (pc = "written" /\ IsJson(out))
        => JsonKeys(out) \subseteq (SuccessKeys \cup FailureKeys)

\* With a ground truth other than zero the percentage is the number
\* 100 * error_m / ground_truth_m.
ErrorPercentDefined ==
    (r.success /\ ground_truth_m.n # 0) =>
        /\ IsFinite(r.error_percent)
        /\ r.error_percent.n * r.error_m.d * ground_truth_m.n
               = 100 * r.error_m.n * ground_truth_m.d * r.error_percent.d

\* The buffer is freed unless edge detection threw, and never twice.
BufferLeaksOnlyOnThrow ==
    /\ frees <= 1
    /\ staleReads = 0
    /\ (Ended /\ data = "live") => (thrown # <<>> /\ stages = <<"load", "detect">>)

\* Only an exception that does not derive from std::exception leaves run_pipeline.
EscapesOnlyNonStd == pc = "escaped" <=> (thrown # <<>> /\ ~thrown[1].std)

=============================================================================
